---- MODULE Spec2Model ----
(***************************************************************************)
(* Model of app_streamlit.py: the ticket store kept in st.session_state,   *)
(* the fake embedding, cosine_similarity, retrieve_relevant_tickets,       *)
(* call_llm and the Streamlit script body (metrics, status edit loop and   *)
(* the "Run AI" handler).                                                  *)
(*                                                                         *)
(* Numbers.  Vector components are integers counted in tenths (0.1 is 1).  *)
(* A magnitude math.sqrt(s) is carried as its square s, and a similarity   *)
(* x = dot / (mag_a * mag_b) as the fraction sq / den2 in lowest terms     *)
(* that equals sign(x) * x^2, so that every comparison below is exact      *)
(* arithmetic on integers (x |-> sign(x) * x^2 is strictly increasing).    *)
(*                                                                         *)
(* Text.  A string handed to json.loads is carried as its parse class:     *)
(* [kind |-> "json", value |-> v] is the serialisation of the JSON value   *)
(* v, [kind |-> "raw", text |-> s] is a text that is not JSON.  A text     *)
(* made by "\n".join is carried as the sequence of its lines.              *)
(***************************************************************************)
EXTENDS Integers, Sequences, FiniteSets, TLC

VARIABLES
    tickets,            \* st.session_state.tickets
    sentiment_history,  \* st.session_state.sentiment_history
    open_count,         \* metrics computed by the last script run
    pending_count,
    resolved_count,
    user_issue,         \* value of the text input
    last,               \* which interaction caused the last script run
    run_result,         \* what the last script run showed for "Run AI"
    vec_a, vec_b,       \* arguments of a cosine_similarity call
    cos_result,         \* its result, NotCalled before the call
    query, cand, top_k, \* arguments of a retrieve_relevant_tickets call
    cand_after,         \* the caller's ticket list during/after the calls
    rank_result,        \* result of the last call
    rank_calls,         \* number of calls made with these arguments
    response,           \* text handed to json.loads by the handler
    resp_result         \* the handler's outcome on it

vars == <<tickets, sentiment_history, open_count, pending_count,
          resolved_count, user_issue, last, run_result,
          vec_a, vec_b, cos_result, query, cand, top_k, cand_after,
          rank_result, rank_calls, response, resp_result>>

appVars  == <<tickets, sentiment_history, open_count, pending_count,
              resolved_count, user_issue, last, run_result>>
cosVars  == <<vec_a, vec_b, cos_result>>
rankVars == <<query, cand, top_k, cand_after, rank_result, rank_calls>>
respVars == <<response, resp_result>>

NotCalled == [kind |-> "not_called"]

(***************************************************************************)
(* Bounds of the model                                                     *)
(***************************************************************************)
MaxDim == 2        \* longest vector given to cosine_similarity directly
MaxVal == 2        \* largest absolute component, in tenths
MaxLen == 3        \* longest ticket list given to the ranker directly
MaxTopK == 4       \* largest top_k given to the ranker directly
MaxHistory == 2    \* longest sentiment_history followed in one session
MaxIssues == 2     \* sample issues the user chooses among

(***************************************************************************)
(* Program constants                                                       *)
(***************************************************************************)
EMBED_DIM == 768   \* [0.1] * 768
EMBED_VAL == 1     \* 0.1, in tenths
DEFAULT_TOP_K == 3 \* top_k=3

STATUS_OPTIONS == <<"Open", "Pending", "Resolved", "Followed Up">>
SENTIMENTS == <<"Frustrated", "Upset", "Concerned">>

SeqRange(s) == {s[i] : i \in DOMAIN s}
Min(x, y) == IF x < y THEN x ELSE y
Max(x, y) == IF x > y THEN x ELSE y

SEED_TICKETS == <<
    [id |-> "TCK-1001", customer |-> "Alice Johnson",
     issue |-> "The iOS app crashes immediately when I try to log in.",
     status |-> "Open"],
    [id |-> "TCK-1002", customer |-> "Bob Smith",
     issue |-> "I've emailed twice already and no one has responded.",
     status |-> "Pending"],
    [id |-> "TCK-1003", customer |-> "Charlie Davis",
     issue |-> "I was charged twice for my March invoice and no one has fixed it.",
     status |-> "Open"],
    [id |-> "TCK-1004", customer |-> "Dana Lee",
     issue |-> "The website is loading very slowly for me.",
     status |-> "Open"],
    [id |-> "TCK-1005", customer |-> "Evan Kim",
     issue |-> "I received the wrong item in my order and need a replacement.",
     status |-> "Pending"] >>

sample_issues == <<
    "Customer is upset about billing and lack of response",
    "App crashes on login",
    "Received wrong item in order",
    "Website loading slowly",
    "Customer wants refund for double charge" >>

(***************************************************************************)
(* embed and cosine_similarity                                             *)
(***************************************************************************)
\* [0.1] * 768
EMBEDDING == [i \in 1..EMBED_DIM |-> EMBED_VAL]

embed(text) == EMBEDDING

\* sum(a[i] * b[i] for i in lo..hi), summed by halves to keep the
\* evaluation shallow (the order of an exact sum does not matter)
RECURSIVE SumProducts(_, _, _, _)
SumProducts(a, b, lo, hi) ==
    IF lo > hi THEN 0
    ELSE IF lo = hi THEN a[lo] * b[lo]
    ELSE LET mid == (lo + hi) \div 2
         IN  SumProducts(a, b, lo, mid) + SumProducts(a, b, mid + 1, hi)

\* The sum of squares of the one vector embed returns, evaluated once and
\* looked up below instead of being summed again at every call
EMBEDDING_SUMSQ == SumProducts(EMBEDDING, EMBEDDING, 1, Len(EMBEDDING))

\* sum(x*y for x, y in zip(a, b)): zip stops at the shorter argument
Dot(a, b) ==
    IF a = EMBEDDING /\ b = EMBEDDING THEN EMBEDDING_SUMSQ
    ELSE SumProducts(a, b, 1, Min(Len(a), Len(b)))

\* sum(x*x for x in a), the square of math.sqrt(sum(x*x for x in a))
SumSq(a) ==
    IF a = EMBEDDING THEN EMBEDDING_SUMSQ
    ELSE SumProducts(a, a, 1, Len(a))

Sign(x) == IF x > 0 THEN 1 ELSE IF x < 0 THEN -1 ELSE 0
Abs(x) == IF x < 0 THEN -x ELSE x

RECURSIVE GCD(_, _)
GCD(x, y) == IF y = 0 THEN x ELSE GCD(y, x % y)

\* return 0
Zero == [kind |-> "num", sq |-> 0, den2 |-> 1]

\* dot / (mag_a * mag_b), given den2 = (mag_a * mag_b)^2; Python raises
\* ZeroDivisionError on a zero divisor
Divide(dot, den2) ==
    IF den2 = 0 THEN [kind |-> "ZeroDivisionError"]
    ELSE LET sq == Sign(dot) * dot * dot
             g == GCD(Abs(sq), den2)
         IN  [kind |-> "num", sq |-> sq \div g, den2 |-> den2 \div g]

cosine_similarity_and(a, b) ==
    LET dot == Dot(a, b)
        mag_a2 == SumSq(a)
        mag_b2 == SumSq(b)
    IN  IF mag_a2 = 0 /\ mag_b2 = 0 THEN Zero
        ELSE Divide(dot, mag_a2 * mag_b2)

cosine_similarity_nosqrt(a, b) ==
    LET dot == Dot(a, b)
        mag_a2 == SumSq(a)
        mag_b2 == SumSq(b)
    IN  IF mag_a2 = 0 \/ mag_b2 = 0 THEN Zero
        ELSE Divide(dot, (mag_a2 * mag_b2) * (mag_a2 * mag_b2))

cosine_similarity(a, b) ==
    LET dot == Dot(a, b)
        mag_a2 == SumSq(a)
        mag_b2 == SumSq(b)
    IN  IF mag_a2 = 0 \/ mag_b2 = 0 THEN Zero
        ELSE Divide(dot, mag_a2 * mag_b2)

\* Order and equality of two similarities (floats compared with < and ==)
ScoreLt(s, t) == s.sq * t.den2 < t.sq * s.den2
ScoreEq(s, t) == s.sq * t.den2 = t.sq * s.den2
IsOne(s) == s.kind = "num" /\ s.sq = 1 /\ s.den2 = 1
IsZero(s) == s.kind = "num" /\ s.sq = 0

(***************************************************************************)
(* retrieve_relevant_tickets                                               *)
(***************************************************************************)
\* Python's "<" on two (score, ticket) tuples raises TypeError when the
\* scores are equal and the tickets are not: it falls through to dict < dict
TupleCompareRaises(x, y) == ScoreEq(x[1], y[1]) /\ x[2] # y[2]

\* Place of scored[i] in a stable descending order
PlaceDesc(scored, i) ==
    Cardinality({j \in DOMAIN scored : ScoreLt(scored[i][1], scored[j][1])})
    + Cardinality({j \in DOMAIN scored :
                     j < i /\ ScoreEq(scored[i][1], scored[j][1])})
    + 1

StableDesc(scored) ==
    [p \in DOMAIN scored |->
        scored[CHOOSE i \in DOMAIN scored : PlaceDesc(scored, i) = p]]

\* scored.sort(reverse=True): a comparison sort has to compare two entries
\* of equal score directly, so it raises exactly when two of them differ
sort_reverse(scored) ==
    IF \E i, j \in DOMAIN scored : TupleCompareRaises(scored[i], scored[j])
    THEN [kind |-> "TypeError"]
    ELSE [kind |-> "list", value |-> StableDesc(scored)]

\* s[:k], Python's slice with a possibly negative stop
SliceTo(s, k) ==
    LET stop == IF k < 0 THEN Max(Len(s) + k, 0) ELSE Min(k, Len(s))
    IN  SubSeq(s, 1, stop)

\* [(cosine_similarity(query_embedding, embed(t["issue"])), t)
\*  for t in tickets], the first n entries
RECURSIVE ScoredUpTo(_, _, _)
ScoredUpTo(query_embedding, ts, n) ==
    IF n = 0 THEN <<>>
    ELSE Append(ScoredUpTo(query_embedding, ts, n - 1),
                <<cosine_similarity(query_embedding, embed(ts[n].issue)),
                  ts[n]>>)

retrieve_relevant_tickets(q, ts, k) ==
    LET query_embedding == embed(q)
        scored == ScoredUpTo(query_embedding, ts, Len(ts))
    IN  IF \E i \in DOMAIN scored : scored[i][1].kind # "num"
        THEN [kind |-> "ZeroDivisionError"]
        ELSE LET sorted == sort_reverse(scored)
             IN  IF sorted.kind # "list" THEN sorted
                 ELSE LET top == SliceTo(sorted.value, k)
                      IN  [kind |-> "list",
                           value |-> [i \in DOMAIN top |-> top[i][2]]]

tickets_reversed_by_retrieve(q, ts, k) ==
    [i \in DOMAIN ts |-> ts[Len(ts) + 1 - i]]

\* The caller's list after the call: lines 40-42 build and sort the new
\* list "scored" and never assign to "tickets" or to one of its records
tickets_after_retrieve(q, ts, k) == ts

(***************************************************************************)
(* call_llm and the JSON it returns                                        *)
(***************************************************************************)
\* A key of a dict that is absent, or present with a value
Absent == [present |-> FALSE]
Present(v) == [present |-> TRUE, value |-> v]

JsonObject(summary, sentiment, reply, actions) ==
    [type |-> "object", issue_summary |-> summary,
     customer_sentiment |-> sentiment, draft_reply |-> reply,
     recommended_actions |-> actions]

RawText(s) == [kind |-> "raw", text |-> s]

json_dumps(v) == [kind |-> "json", value |-> v]

json_loads(text) ==
    IF text.kind = "json" THEN [kind |-> "ok", value |-> text.value]
    ELSE [kind |-> "JSONDecodeError"]

\* d.get(key, default)
dict_get(d, key, default) ==
    IF d[key].present THEN d[key].value ELSE default

LLM_SUMMARY == <<"The customer reports app crashes, lack of support response, and billing issues.">>
LLM_REPLY == "Dear Customer, we are investigating your issue. Our support team is prioritizing the app crash, email response delays, and billing concerns. We will follow up shortly with a resolution."
LLM_ACTIONS == <<"Investigate app crash", "Respond to pending tickets",
                 "Resolve billing issue", "Follow up with customers">>

\* call_llm(prompt) with sentiment the outcome of random.choice: the new
\* sentiment_history and the returned text
call_llm(prompt, sentiment, history) ==
    [sentiment_history |-> Append(history, sentiment),
     returns |-> json_dumps(JsonObject(Present(LLM_SUMMARY),
                                       Present(sentiment),
                                       Present(LLM_REPLY),
                                       Present(LLM_ACTIONS)))]

\* Lines 158-166: json.loads(response) and the four response_json.get
\* calls of the summary block, with the exception raised when there is one
render_response(text) ==
    LET loaded == json_loads(text)
    IN  IF loaded.kind # "ok" THEN [kind |-> loaded.kind]
        ELSE IF loaded.value.type # "object"
        THEN [kind |-> "AttributeError"]
        ELSE LET response_json == loaded.value
             IN  [kind |-> "rendered",
                  issue_summary |->
                      dict_get(response_json, "issue_summary", <<>>),
                  customer_sentiment |->
                      dict_get(response_json, "customer_sentiment", "Unknown"),
                  draft_reply |->
                      dict_get(response_json, "draft_reply", "No reply generated."),
                  recommended_actions |->
                      dict_get(response_json, "recommended_actions", <<>>)]

(***************************************************************************)
(* The script body: metrics, status edit loop, "Run AI" handler            *)
(***************************************************************************)
OpenCount(ts) == Cardinality({i \in DOMAIN ts : ts[i].status = "Open"})
PendingCount(ts) == Cardinality({i \in DOMAIN ts : ts[i].status = "Pending"})

ResolvedCount_only_resolved(ts) ==
    Cardinality({i \in DOMAIN ts : ts[i].status = "Resolved"})

ResolvedCount(ts) ==
    Cardinality({i \in DOMAIN ts : ts[i].status \in {"Resolved", "Followed Up"}})

\* The loop over the tickets: selected[i] is what the i-th selectbox returns
status_edit_loop(ts, selected) ==
    [i \in DOMAIN ts |->
        IF selected[i] # ts[i].status
        THEN [ts[i] EXCEPT !.status = selected[i]]
        ELSE ts[i]]

run_ai_handler_follows_up(ts, issue, history, sentiment) ==
    [tickets |-> [i \in DOMAIN ts |-> [ts[i] EXCEPT !.status = "Followed Up"]],
     sentiment_history |-> history,
     result |-> [kind |-> "TypeError"]]

\* The body of "if st.button('Run AI')": the ticket list and the sentiment
\* history it leaves, and what it shows (or the exception that ends the run)
run_ai_handler(ts, issue, history, sentiment) ==
    LET relevant_tickets == retrieve_relevant_tickets(issue, ts, DEFAULT_TOP_K)
    IN  IF relevant_tickets.kind # "list"
        THEN [tickets |-> tickets_after_retrieve(issue, ts, DEFAULT_TOP_K),
              sentiment_history |-> history,
              result |-> [kind |-> relevant_tickets.kind]]
        ELSE LET prompt == [i \in DOMAIN relevant_tickets.value |->
                               relevant_tickets.value[i].issue]
                 llm == call_llm(prompt, sentiment, history)
             IN  [tickets |-> tickets_after_retrieve(issue, ts, DEFAULT_TOP_K),
                  sentiment_history |-> llm.sentiment_history,
                  result |-> render_response(llm.returns)]

(***************************************************************************)
(* A session of the page.  Every interaction reruns the whole script: the  *)
(* metrics are computed from the store as the run finds it, then the loop  *)
(* applies the selectbox values, then the handler runs if the button was   *)
(* pressed.  An exception ends the run and leaves session_state as it is.  *)
(***************************************************************************)
NotShown == [kind |-> "not_shown"]

IdleCos  == vec_a = <<>> /\ vec_b = <<>> /\ cos_result = NotCalled
IdleRank == /\ query = sample_issues[1] /\ cand = <<>> /\ cand_after = <<>>
            /\ top_k = DEFAULT_TOP_K /\ rank_result = NotCalled
            /\ rank_calls = 0
IdleResp == response = RawText("") /\ resp_result = NotCalled

\* The session after the first run of the script
FirstRun ==
    /\ tickets = SEED_TICKETS
    /\ sentiment_history = <<>>
    /\ open_count = OpenCount(SEED_TICKETS)
    /\ pending_count = PendingCount(SEED_TICKETS)
    /\ resolved_count = ResolvedCount(SEED_TICKETS)
    /\ user_issue = sample_issues[1]
    /\ last = "load"
    /\ run_result = NotShown

Init == FirstRun /\ IdleCos /\ IdleRank /\ IdleResp

Metrics ==
    /\ open_count' = OpenCount(tickets)
    /\ pending_count' = PendingCount(tickets)
    /\ resolved_count' = ResolvedCount(tickets)

CurrentSelection == [i \in DOMAIN tickets |-> tickets[i].status]

\* The user picks another status in the selectbox of ticket i
EditStatus ==
    \E i \in DOMAIN tickets, new_status \in SeqRange(STATUS_OPTIONS) :
        /\ new_status # tickets[i].status
        /\ Metrics
        /\ tickets' = status_edit_loop(tickets,
                          [CurrentSelection EXCEPT ![i] = new_status])
        /\ last' = "status_edit"
        /\ run_result' = NotShown
        /\ UNCHANGED <<sentiment_history, user_issue>>

\* The user picks or types another issue
ChangeIssue ==
    \E n \in 1..MaxIssues :
        /\ n \in DOMAIN sample_issues
        /\ sample_issues[n] # user_issue
        /\ Metrics
        /\ tickets' = status_edit_loop(tickets, CurrentSelection)
        /\ user_issue' = sample_issues[n]
        /\ last' = "issue_edit"
        /\ run_result' = NotShown
        /\ UNCHANGED sentiment_history

\* The user presses "Run AI"
RunAI ==
    \E sentiment \in SeqRange(SENTIMENTS) :
        LET shown == status_edit_loop(tickets, CurrentSelection)
            h == run_ai_handler(shown, user_issue, sentiment_history, sentiment)
        IN  /\ Len(sentiment_history) < MaxHistory
            /\ Metrics
            /\ tickets' = h.tickets
            /\ sentiment_history' = h.sentiment_history
            /\ run_result' = h.result
            /\ last' = "run_ai"
            /\ UNCHANGED user_issue

Next ==
    \/ EditStatus /\ UNCHANGED <<cosVars, rankVars, respVars>>
    \/ ChangeIssue /\ UNCHANGED <<cosVars, rankVars, respVars>>
    \/ RunAI /\ UNCHANGED <<cosVars, rankVars, respVars>>

Spec == Init /\ [][Next]_vars

(***************************************************************************)
(* cosine_similarity called on any two vectors                             *)
(***************************************************************************)
Vectors == UNION {[1..n -> (-MaxVal)..MaxVal] : n \in 0..MaxDim}

InitCosine ==
    /\ FirstRun /\ IdleRank /\ IdleResp
    /\ vec_a \in Vectors
    /\ vec_b \in Vectors
    /\ cos_result = NotCalled

CallCosine ==
    /\ cos_result = NotCalled
    /\ cos_result' = cosine_similarity(vec_a, vec_b)
    /\ UNCHANGED <<vec_a, vec_b, appVars, rankVars, respVars>>

NextCosine == CallCosine

SpecCosine == InitCosine /\ [][NextCosine]_vars

(***************************************************************************)
(* retrieve_relevant_tickets called on any query, ticket list and top_k    *)
(***************************************************************************)
MaxCalls == 2      \* calls followed on the same arguments

\* Two different tickets and a copy of the first with another status
TicketPool ==
    {SEED_TICKETS[1], SEED_TICKETS[2],
     [SEED_TICKETS[1] EXCEPT !.status = "Resolved"]}

TicketLists == UNION {[1..n -> TicketPool] : n \in 0..MaxLen}

InitRank ==
    /\ FirstRun /\ IdleCos /\ IdleResp
    /\ query \in {sample_issues[1], sample_issues[2]}
    /\ cand \in TicketLists
    /\ cand_after = cand
    /\ top_k \in (-1)..MaxTopK
    /\ rank_result = NotCalled
    /\ rank_calls = 0

CallRetrieve ==
    /\ rank_calls < MaxCalls
    /\ rank_result' = retrieve_relevant_tickets(query, cand_after, top_k)
    /\ cand_after' = tickets_after_retrieve(query, cand_after, top_k)
    /\ rank_calls' = rank_calls + 1
    /\ UNCHANGED <<query, cand, top_k, appVars, cosVars, respVars>>

NextRank == CallRetrieve

SpecRank == InitRank /\ [][NextRank]_vars

(***************************************************************************)
(* The handler's parse of any responder output                             *)
(***************************************************************************)
Optional(S) == {Absent} \cup {Present(v) : v \in S}

JsonObjects ==
    {JsonObject(su, se, re, ac) :
        su \in Optional({LLM_SUMMARY}),
        se \in Optional(SeqRange(SENTIMENTS)),
        re \in Optional({LLM_REPLY, ""}),
        ac \in Optional({<<>>, LLM_ACTIONS})}

ResponderOutputs ==
    {json_dumps(v) : v \in JsonObjects}
    \cup {json_dumps([type |-> "array"]), json_dumps([type |-> "string"]),
          json_dumps([type |-> "number"])}
    \cup {RawText("not json"), RawText("")}

InitRespond ==
    /\ FirstRun /\ IdleCos /\ IdleRank
    /\ response \in ResponderOutputs
    /\ resp_result = NotCalled

HandleResponse ==
    /\ resp_result = NotCalled
    /\ resp_result' = render_response(response)
    /\ UNCHANGED <<response, appVars, cosVars, rankVars>>

NextRespond == HandleResponse

SpecRespond == InitRespond /\ [][NextRespond]_vars

(***************************************************************************)
(* Properties                                                              *)
(***************************************************************************)
AllZero(v) == \A i \in DOMAIN v : v[i] = 0
CosCalled == cos_result.kind # "not_called"
RankCalled == rank_calls > 0
RespCalled == resp_result.kind # "not_called"

\* Number of places of the sequence s that hold x
Occurrences(s, x) == Cardinality({i \in DOMAIN s : s[i] = x})

\* The candidates in descending order of score, equal scores in input
\* order, cut to top_k
C1_Expected ==
    LET scored == ScoredUpTo(embed(query), cand, Len(cand))
        top == SliceTo(StableDesc(scored), top_k)
    IN  [i \in DOMAIN top |-> top[i][2]]

\* C1: retrieve_relevant_tickets returns the candidates in descending order
\* of score with equal scores in input order; with the constant embed the
\* result is the first top_k tickets in input order.
C1_StableDescendingRanking ==
    RankCalled =>
        /\ rank_result.kind = "list"
        /\ rank_result.value = C1_Expected
        /\ top_k >= 0 =>
               rank_result.value = SubSeq(cand, 1, Min(top_k, Len(cand)))

\* C2: for a positive top_k the ranker returns exactly min(top_k, n)
\* results, each one of the input candidates, none used more often than it
\* occurs in the input.
C2_ReturnsMinTopKCandidates ==
    (RankCalled /\ top_k > 0) =>
        /\ rank_result.kind = "list"
        /\ Len(rank_result.value) = Min(top_k, Len(cand))
        /\ \A i \in DOMAIN rank_result.value :
               Occurrences(rank_result.value, rank_result.value[i])
                   <= Occurrences(cand, rank_result.value[i])

\* C3: the ranker raises no exception: every call returns a list, also on
\* lists in which distinct records get the same score.
C3_RankerNeverRaises ==
    RankCalled => rank_result.kind = "list"

\* C4: when at least one of the two vectors has zero magnitude (the empty
\* vector included), cosine_similarity returns exactly 0 and does not divide
\* by zero.
C4_ZeroMagnitudeGivesZero ==
    (CosCalled /\ (AllZero(vec_a) \/ AllZero(vec_b))) =>
        /\ cos_result.kind # "ZeroDivisionError"
        /\ IsZero(cos_result)

C4_Witness ==
    /\ CosCalled
    /\ Len(vec_a) > 0 /\ AllZero(vec_a)
    /\ ~AllZero(vec_b)
    /\ IsZero(cos_result)

C6_IdenticalGivesOne ==
    (CosCalled /\ vec_a = vec_b) => IsOne(cos_result)

\* C6 amended: for any two identical vectors of non-zero magnitude
\* cosine_similarity returns 1 (in exact arithmetic).
C6_IdenticalNonZeroGivesOne ==
    (CosCalled /\ vec_a = vec_b /\ ~AllZero(vec_a)) => IsOne(cos_result)

C6_Witness ==
    /\ CosCalled
    /\ vec_a = vec_b
    /\ Len(vec_a) = MaxDim /\ \A i \in DOMAIN vec_a : vec_a[i] # 0
    /\ IsOne(cos_result)

C8_StoreChangesOnlyByStatusEdit ==
    [][/\ Len(tickets') = Len(SEED_TICKETS)
       /\ \A i \in DOMAIN SEED_TICKETS :
            /\ tickets'[i].id = SEED_TICKETS[i].id
            /\ tickets'[i].customer = SEED_TICKETS[i].customer
            /\ tickets'[i].issue = SEED_TICKETS[i].issue
            /\ tickets'[i].status # tickets[i].status
                   => last' = "status_edit"]_vars

C8_Witness ==
    /\ last = "run_ai"
    /\ \E i \in DOMAIN tickets : tickets[i].status = "Followed Up"
    /\ \E i \in DOMAIN tickets :
           tickets[i].status = SEED_TICKETS[i].status

\* C9: every press of "Run AI" runs one full cycle to completion: the
\* responder is called once, so sentiment_history grows by exactly one
\* entry, and the reply is shown.
C9_OneFullCyclePerPress ==
    [][last' = "run_ai" =>
          /\ Len(sentiment_history') = Len(sentiment_history) + 1
          /\ run_result'.kind = "rendered"]_vars

\* C10: every ticket's status is one of the four options, and the three
\* metrics of a run count every ticket exactly once: they add up to the
\* number of tickets.
C10_MetricsCountEveryTicketOnce ==
    /\ \A i \in DOMAIN tickets : tickets[i].status \in SeqRange(STATUS_OPTIONS)
    /\ open_count + pending_count + resolved_count = Len(tickets)
    /\ OpenCount(tickets) + PendingCount(tickets) + ResolvedCount(tickets)
           = Len(tickets)

C10_Witness ==
    /\ last = "status_edit"
    /\ resolved_count >= 2
    /\ \E i \in DOMAIN tickets : tickets[i].status = "Followed Up"
    /\ \E i \in DOMAIN tickets : tickets[i].status = "Resolved"

====
